---- MODULE Spec2Model ----
(***************************************************************************)
(* The retry engine of selenidejs (src/lib/wait.ts, class Wait) together   *)
(* with the conditions of src/unnamed/part_000 it is used with.            *)
(*                                                                         *)
(* One Wait object is modelled.  Its caller starts until/command/query     *)
(* calls one after another; a call is the loop of Wait.query: it invokes   *)
(* fn on the held entity, awaits the promise, returns on success and on    *)
(* failure reads the clock, compares it with the deadline and either       *)
(* throws TimeoutError or invokes fn again.  The clock and the element in  *)
(* the browser change on their own between the steps of the call.          *)
(***************************************************************************)
EXTENDS Integers, Sequences, FiniteSets

(* ------------------------------ bounds -------------------------------- *)

\* largest timeout (constructor default or per-call override), in clock ticks
MaxTimeout == 2
\* latest clock value at which the caller starts a call
MaxStart == 1
\* the attempt counters stop counting here (the loop itself is unbounded)
MaxAttempts == 3

\* the clock runs far enough for every deadline to pass
MaxClock == MaxStart + MaxTimeout + 1
\* timeouts include zero and a negative value
Timeouts == (0 - 1) .. MaxTimeout
NoTime == 0 - 1

(* --------------------------- values ----------------------------------- *)

NoError == [name |-> "none", message |-> "", timeout |-> 0]
\* new ConditionNotMatchedError()
ConditionNotMatchedError ==
    [name |-> "ConditionNotMatchedError", message |-> "condition not matched", timeout |-> 0]
\* the failure of the element lookup (element.getWebElement() rejects)
WebDriverError ==
    [name |-> "Error", message |-> "no such element", timeout |-> 0]
\* a custom fn's own Error
CustomError ==
    [name |-> "Error", message |-> "custom failure", timeout |-> 0]
\* a rejection without a reason: Promise.reject(), throw undefined
Undefined == [name |-> "undefined", message |-> "", timeout |-> 0]
\* what reading error.message of undefined throws
TypeError ==
    [name |-> "TypeError", message |-> "cannot read property message of undefined", timeout |-> 0]

Pending == [state |-> "pending", value |-> "", error |-> NoError]
Resolved(v) == [state |-> "resolved", value |-> v, error |-> NoError]
Rejected(e) == [state |-> "rejected", value |-> "", error |-> e]

(* ------------------- conditions (src/unnamed/part_000) ---------------- *)

\* the states of the element in the browser
EntityStates == {"absent", "hidden", "visible"}

\* async (element) => (await element.getWebElement()).isDisplayed()
isDisplayed(e) ==
    IF e = "absent" THEN Rejected(WebDriverError)
    ELSE Resolved(IF e = "visible" THEN "true" ELSE "false")

\* mutant: the test of the predicate's result is inverted
throwIfNot_inverted(p) ==
    IF p.state = "rejected" THEN p
    ELSE IF p.value = "true" THEN Rejected(ConditionNotMatchedError)
    ELSE Resolved("undefined")

\* throwIfNot(description, predicate): p is the settled predicate(entity)
throwIfNot(p) ==
    IF p.state = "rejected" THEN p
    ELSE IF p.value = "true" THEN Resolved("undefined")
    ELSE Rejected(ConditionNotMatchedError)

isVisible(e) == throwIfNot(isDisplayed(e))

\* mutant: the catch block lets every error but ConditionNotMatchedError through
Condition_not_catchesOnlyNotMatched(c) ==
    IF c.state = "rejected"
    THEN IF c.error = ConditionNotMatchedError THEN Resolved("undefined") ELSE c
    ELSE Rejected(ConditionNotMatchedError)

\* mutant: the throw after the try block is missing
Condition_not_neverThrows(c) == Resolved("undefined")

\* Condition.not(condition): c is the settled condition(entity)
Condition_not(c) ==
    IF c.state = "rejected" THEN Resolved("undefined")
    ELSE Rejected(ConditionNotMatchedError)

\* mutant: isHidden is written on its own, from the element being displayed
isHidden_reimplemented(e) ==
    IF e = "hidden" THEN Resolved("undefined") ELSE Rejected(ConditionNotMatchedError)

isHidden(e) == Condition_not(isVisible(e))

\* async (element) => (await element.getWebElement()).isEnabled()
isEnabledQuery(e, en) ==
    IF e = "absent" THEN Rejected(WebDriverError)
    ELSE Resolved(IF en THEN "true" ELSE "false")

isEnabled(e, en) == throwIfNot(isEnabledQuery(e, en))

isDisabled(e, en) == Condition_not(isEnabled(e, en))

\* async (element) => !!(await element.getWebElement())
isPresentQuery(e) ==
    IF e = "absent" THEN Rejected(WebDriverError) ELSE Resolved("true")

isPresent(e) == throwIfNot(isPresentQuery(e))

isAbsent(e) == Condition_not(isPresent(e))

\* mutant: asPredicate has no rejection handler
asPredicate_propagates(c) ==
    IF c.state = "resolved" THEN Resolved("true") ELSE c

\* Condition.asPredicate(condition): c is the settled condition(entity)
asPredicate(c) ==
    IF c.state = "resolved" THEN Resolved("true") ELSE Resolved("false")

\* the positive conditions of the library and their negatives
Positives == {"isVisible", "isEnabled", "isPresent"}
Negative(c) ==
    IF c = "isVisible" THEN "isHidden"
    ELSE IF c = "isEnabled" THEN "isDisabled"
    ELSE "isAbsent"
\* the conditions a combinator is applied to: the library's, or any
\* caller-supplied Condition<T>
AlgConditions == Positives \cup {Negative(c) : c \in Positives} \cup {"custom"}
\* what a caller-supplied condition may settle with
CustomConditionOutcomes ==
    {Resolved("undefined"), Rejected(CustomError), Rejected(Undefined)}

\* the promises condition(entity) may settle with
ConditionOutcomes(c, e, en) ==
    IF c = "isVisible" THEN {isVisible(e)}
    ELSE IF c = "isHidden" THEN {isHidden(e)}
    ELSE IF c = "isEnabled" THEN {isEnabled(e, en)}
    ELSE IF c = "isDisabled" THEN {isDisabled(e, en)}
    ELSE IF c = "isPresent" THEN {isPresent(e)}
    ELSE IF c = "isAbsent" THEN {isAbsent(e)}
    ELSE CustomConditionOutcomes

\* the conditions of the library a call is given
Conditions == {"isVisible", "isHidden"}
\* fn: a condition of the library, or any caller-supplied Query<T, R>
Fns == Conditions \cup {"custom"}
\* what a caller-supplied query may settle with
CustomOutcomes == {Resolved("r"), Rejected(CustomError), Rejected(Undefined)}

\* the promises fn(entity) may settle with
FnOutcomes(f, e) ==
    IF f = "isVisible" THEN {isVisible(e)}
    ELSE IF f = "isHidden" THEN {isHidden(e)}
    ELSE CustomOutcomes

(* ----------------------------- state ---------------------------------- *)

VARIABLES
    clock,          \* new Date().getTime()
    browserState,   \* the state of the element this.entity stands for
    flipTime,       \* the clock when the element was made visible, or NoTime
    entity,         \* this.entity
    timeout,        \* this.timeout
    onFailureHooks, \* this.onFailureHooks
    hooksInvoked,   \* the hooks invoked so far, in order
    pc,             \* "idle", "invoked" (fn in flight), "evaluated" (fn settled), "done"
    op,             \* the method called: "until", "command" or "query"
    fn,             \* the fn argument
    overridden,     \* whether the call was given a timeout argument
    callTimeout,    \* the timeout parameter of the call
    startTime,      \* the clock read at the start of query
    finishTime,     \* const finishTime
    attempts,       \* invocations of fn in this call (counted up to MaxAttempts)
    attemptStart,   \* the clock when fn was last invoked
    invokedOn,      \* the entity fn was last invoked on
    settleTime,     \* the clock when the last invocation read the element and settled
    outcome,        \* the promise returned by the last invocation of fn
    queryResult,    \* the promise of this.query(fn, timeout)
    result,         \* the promise the called method returns
    endTime,        \* the clock when the call settled, or NoTime
    enabled,        \* whether the element is enabled (with browserState: the element)
    algPc,          \* how far a condition and its combinators have been applied
    cond,           \* the condition C applied to the element
    condOut,        \* the promise of C(element)
    notOut,         \* the promise of Condition.not(C)(element)
    notNotOut,      \* the promise of Condition.not(Condition.not(C))(element)
    predOut,        \* the promise of Condition.asPredicate(C)(element)
    counterpartOut, \* the promise of the library's negative of C on the element
    wEntity,        \* per Wait of a pair: the state of the element it holds
    wFn,            \* per Wait: the fn of its call
    wPc,            \* per Wait: "idle", "invoked", "evaluated" or "done"
    wFinish,        \* per Wait: finishTime of its call
    wTimeout,       \* per Wait: the timeout of its call
    wRetried,       \* per Wait: whether fn has been invoked again in its call
    wInFlight,      \* per Wait: invocations of fn whose promise has not settled
    wOutcome,       \* per Wait: the promise returned by the last settled invocation
    wResult         \* per Wait: the promise of its query

waitVars == <<entity, timeout, onFailureHooks, hooksInvoked>>
worldVars == <<clock, browserState, flipTime>>
callVars == <<op, fn, overridden, callTimeout, startTime, finishTime>>
loopVars == <<pc, attempts, attemptStart, invokedOn, settleTime, outcome>>
endVars == <<queryResult, result, endTime>>
algVars == <<enabled, algPc, cond, condOut, notOut, notNotOut, predOut, counterpartOut>>
\* what the calls of a Wait leave alone
concVars == <<wEntity, wFn, wPc, wTimeout, wFinish, wRetried, wInFlight, wOutcome, wResult>>
otherVars == <<algVars, concVars>>
vars == <<waitVars, worldVars, callVars, loopVars, endVars, otherVars>>

Ops == {"until", "command", "query"}
\* the hooks and the default timeouts a Wait is constructed with
Hooks == <<"h1", "h2">>
DefaultTimeouts == {0, MaxTimeout}

Inc(n) == IF n < MaxAttempts THEN n + 1 ELSE n

(* ------------------------- Wait (src/lib/wait.ts) --------------------- *)

\* new Wait(entity, timeout, onFailureHooks), before any call
WaitInit ==
    /\ clock = 0
    /\ browserState \in EntityStates
    /\ flipTime = NoTime
    /\ entity = "button"
    /\ timeout \in DefaultTimeouts
    /\ onFailureHooks = Hooks
    /\ hooksInvoked = <<>>
    /\ pc = "idle"
    /\ op = "query"
    /\ fn = "custom"
    /\ overridden = FALSE
    /\ callTimeout = 0
    /\ startTime = 0
    /\ finishTime = 0
    /\ attempts = 0
    /\ attemptStart = NoTime
    /\ invokedOn = "none"
    /\ settleTime = NoTime
    /\ outcome = Pending
    /\ queryResult = Pending
    /\ result = Pending
    /\ endTime = NoTime

\* no condition has been applied outside a call
AlgIdle ==
    /\ algPc = "start"
    /\ cond = "none"
    /\ condOut = Pending
    /\ notOut = Pending
    /\ notNotOut = Pending
    /\ predOut = Pending
    /\ counterpartOut = Pending

\* the Waits of a pair, each on its own element
WaitIds == {"w1", "w2"}

\* no call has been made on either Wait of the pair
ConcIdle ==
    /\ wFn = [w \in WaitIds |-> "custom"]
    /\ wPc = [w \in WaitIds |-> "idle"]
    /\ wFinish = [w \in WaitIds |-> 0]
    /\ wTimeout = [w \in WaitIds |-> 0]
    /\ wRetried = [w \in WaitIds |-> FALSE]
    /\ wInFlight = [w \in WaitIds |-> 0]
    /\ wOutcome = [w \in WaitIds |-> Pending]
    /\ wResult = [w \in WaitIds |-> Pending]

Init ==
    /\ WaitInit
    /\ enabled = FALSE
    /\ AlgIdle
    /\ wEntity = [w \in WaitIds |-> "hidden"]
    /\ ConcIdle

\* mutant: the deadline check is not strict
DeadlineExceeded_notStrict(now, finish) == now >= finish

\* mutant: the deadline check is one tick late
DeadlineExceeded_late(now, finish) == now > finish + 1

\* new Date().getTime() > finishTime
DeadlineExceeded(now, finish) == now > finish

\* mutant: the catch block rethrows the attempt's own error
TimeoutError_rethrown(t, error) == error

\* mutant: the message reports the Wait's timeout, not the timeout of the call
TimeoutError_defaultTimeout(t, error) ==
    IF error = Undefined THEN TypeError
    ELSE [name |-> "TimeoutError", message |-> error.message, timeout |-> timeout]

\* new TimeoutError(... ${timeout}ms ... ${error.message}); reading
\* error.message throws TypeError when error is undefined
TimeoutError(t, error) ==
    IF error = Undefined THEN TypeError
    ELSE [name |-> "TimeoutError", message |-> error.message, timeout |-> t]

\* mutant: until has no rejection handler
until_propagates(q) ==
    IF q.state = "resolved" THEN Resolved("true") ELSE q

\* until: this.query(fn, timeout).then(res => true, err => false)
until(q) ==
    IF q.state = "resolved" THEN Resolved("true") ELSE Resolved("false")

\* command: await this.query(fn, timeout)
command(q) ==
    IF q.state = "resolved" THEN Resolved("undefined") ELSE q

\* the promise the called method returns, from the promise of query
Returned(o, q) ==
    IF o = "until" THEN until(q)
    ELSE IF o = "command" THEN command(q)
    ELSE q

\* the timeout parameter: the argument, or this.timeout when it is left out
TimeoutParameter(given, arg) == IF given THEN arg ELSE timeout

\* mutant: the loop tests the deadline before it invokes fn (while (now <= finishTime))
Call_checksDeadlineFirst ==
    /\ UNCHANGED otherVars
    /\ pc \in {"idle", "done"}
    /\ clock <= MaxStart
    /\ \E o \in Ops, f \in Fns, given \in BOOLEAN, arg \in Timeouts :
        LET t == TimeoutParameter(given, arg)
            thrown == Rejected(TimeoutError(t, NoError))
        IN  /\ op' = o
            /\ fn' = f
            /\ overridden' = given
            /\ callTimeout' = t
            /\ finishTime' = clock + t
            /\ IF DeadlineExceeded(clock, clock + t)
               THEN /\ pc' = "done"
                    /\ attempts' = 0
                    /\ attemptStart' = NoTime
                    /\ queryResult' = thrown
                    /\ result' = Returned(o, thrown)
                    /\ endTime' = clock
               ELSE /\ pc' = "invoked"
                    /\ attempts' = 1
                    /\ attemptStart' = clock
                    /\ queryResult' = Pending
                    /\ result' = Pending
                    /\ endTime' = NoTime
    /\ invokedOn' = entity
    /\ startTime' = clock
    /\ settleTime' = NoTime
    /\ outcome' = Pending
    /\ UNCHANGED <<waitVars, worldVars>>

\* mutant: the timeout argument is stored as the Wait's timeout
Call_storesOverride ==
    /\ UNCHANGED otherVars
    /\ pc \in {"idle", "done"}
    /\ clock <= MaxStart
    /\ \E o \in Ops, f \in Fns, given \in BOOLEAN, arg \in Timeouts :
        /\ op' = o
        /\ fn' = f
        /\ overridden' = given
        /\ callTimeout' = TimeoutParameter(given, arg)
        /\ finishTime' = clock + TimeoutParameter(given, arg)
        /\ timeout' = TimeoutParameter(given, arg)
    /\ startTime' = clock
    /\ pc' = "invoked"
    /\ attempts' = 1
    /\ attemptStart' = clock
    /\ invokedOn' = entity
    /\ settleTime' = NoTime
    /\ outcome' = Pending
    /\ queryResult' = Pending
    /\ result' = Pending
    /\ endTime' = NoTime
    /\ UNCHANGED <<entity, onFailureHooks, hooksInvoked, worldVars>>

\* the caller calls until/command/query: finishTime is computed and fn is
\* invoked for the first time
Call ==
    /\ UNCHANGED otherVars
    /\ pc \in {"idle", "done"}
    /\ clock <= MaxStart
    /\ \E o \in Ops, f \in Fns, given \in BOOLEAN, arg \in Timeouts :
        /\ op' = o
        /\ fn' = f
        /\ overridden' = given
        /\ callTimeout' = TimeoutParameter(given, arg)
        /\ finishTime' = clock + TimeoutParameter(given, arg)
    /\ startTime' = clock
    /\ pc' = "invoked"
    /\ attempts' = 1
    /\ attemptStart' = clock
    /\ invokedOn' = entity
    /\ settleTime' = NoTime
    /\ outcome' = Pending
    /\ queryResult' = Pending
    /\ result' = Pending
    /\ endTime' = NoTime
    /\ UNCHANGED <<waitVars, worldVars>>

\* fn(this.entity) reads the element and its promise settles
FnSettles ==
    /\ UNCHANGED otherVars
    /\ pc = "invoked"
    /\ \E p \in FnOutcomes(fn, browserState) : outcome' = p
    /\ settleTime' = clock
    /\ pc' = "evaluated"
    /\ UNCHANGED <<waitVars, worldVars, callVars, attempts, attemptStart, invokedOn,
                   endVars>>

\* mutant: a successful attempt does not leave the loop before the deadline
AwaitReturns_keepsPolling ==
    /\ UNCHANGED otherVars
    /\ pc = "evaluated"
    /\ outcome.state = "resolved"
    /\ IF DeadlineExceeded(clock, finishTime)
       THEN /\ queryResult' = outcome
            /\ result' = Returned(op, outcome)
            /\ endTime' = clock
            /\ pc' = "done"
            /\ UNCHANGED <<attempts, attemptStart, invokedOn>>
       ELSE /\ attempts' = Inc(attempts)
            /\ attemptStart' = clock
            /\ invokedOn' = entity
            /\ pc' = "invoked"
            /\ UNCHANGED endVars
    /\ UNCHANGED <<waitVars, worldVars, callVars, settleTime, outcome>>

\* mutant: the deadline is checked after every attempt, a successful one too
AwaitReturns_checksDeadline ==
    /\ UNCHANGED otherVars
    /\ pc = "evaluated"
    /\ outcome.state = "resolved"
    /\ LET q == IF DeadlineExceeded(clock, finishTime)
                THEN Rejected(TimeoutError(callTimeout, NoError))
                ELSE outcome
       IN  /\ queryResult' = q
           /\ result' = Returned(op, q)
    /\ endTime' = clock
    /\ pc' = "done"
    /\ UNCHANGED <<waitVars, worldVars, callVars, attempts, attemptStart,
                   invokedOn, settleTime, outcome>>

\* return await fn(this.entity)
AwaitReturns ==
    /\ UNCHANGED otherVars
    /\ pc = "evaluated"
    /\ outcome.state = "resolved"
    /\ queryResult' = outcome
    /\ result' = Returned(op, outcome)
    /\ endTime' = clock
    /\ pc' = "done"
    /\ UNCHANGED <<waitVars, worldVars, callVars, attempts, attemptStart,
                   invokedOn, settleTime, outcome>>

\* catch (error), the deadline not exceeded: the loop invokes fn again
CatchRetries ==
    /\ UNCHANGED otherVars
    /\ pc = "evaluated"
    /\ outcome.state = "rejected"
    /\ ~DeadlineExceeded(clock, finishTime)
    /\ attempts' = Inc(attempts)
    /\ attemptStart' = clock
    /\ invokedOn' = entity
    /\ pc' = "invoked"
    /\ UNCHANGED <<waitVars, worldVars, callVars, settleTime, outcome, endVars>>

\* catch (error), the deadline exceeded: throw new TimeoutError(...)
CatchThrows ==
    /\ UNCHANGED otherVars
    /\ pc = "evaluated"
    /\ outcome.state = "rejected"
    /\ DeadlineExceeded(clock, finishTime)
    /\ queryResult' = Rejected(TimeoutError(callTimeout, outcome.error))
    /\ result' = Returned(op, Rejected(TimeoutError(callTimeout, outcome.error)))
    /\ endTime' = clock
    /\ pc' = "done"
    /\ UNCHANGED <<waitVars, worldVars, callVars, attempts, attemptStart,
                   invokedOn, settleTime, outcome>>

(* ------------------------- the environment ---------------------------- *)

\* the wall clock advances
Tick ==
    /\ UNCHANGED otherVars
    /\ clock < MaxClock
    /\ clock' = clock + 1
    /\ UNCHANGED <<browserState, flipTime, waitVars, callVars, loopVars, endVars>>

\* the page's script makes the hidden element visible (style = "display:block")
Flip ==
    /\ UNCHANGED otherVars
    /\ browserState = "hidden"
    /\ browserState' = "visible"
    /\ flipTime' = clock
    /\ UNCHANGED <<clock, waitVars, callVars, loopVars, endVars>>

Next ==
    \/ Call
    \/ FnSettles
    \/ AwaitReturns
    \/ CatchRetries
    \/ CatchThrows
    \/ Tick
    \/ Flip

Spec == Init /\ [][Next]_vars

\* every attempt settles, every continuation runs, the clock advances
LiveSpec ==
    /\ Init
    /\ [][Next]_vars
    /\ WF_vars(FnSettles)
    /\ WF_vars(AwaitReturns)
    /\ WF_vars(CatchRetries)
    /\ WF_vars(CatchThrows)
    /\ WF_vars(Tick)

(* ------------- the condition algebra, applied to an element ------------ *)

\* an element of the page, and nothing applied to it yet
AlgInit ==
    /\ WaitInit
    /\ timeout = 0
    /\ enabled \in BOOLEAN
    /\ browserState = "absent" => ~enabled
    /\ AlgIdle
    /\ wEntity = [w \in WaitIds |-> "hidden"]
    /\ ConcIdle

\* condition(entity)
ApplyCondition ==
    /\ algPc = "start"
    /\ \E c \in AlgConditions :
        /\ cond' = c
        /\ \E p \in ConditionOutcomes(c, browserState, enabled) : condOut' = p
    /\ algPc' = "applied"
    /\ UNCHANGED <<waitVars, worldVars, callVars, loopVars, endVars, concVars, enabled,
                   notOut, notNotOut, predOut, counterpartOut>>

\* Condition.not(condition)(entity)
ApplyNot ==
    /\ algPc = "applied"
    /\ notOut' = Condition_not(condOut)
    /\ algPc' = "negated"
    /\ UNCHANGED <<waitVars, worldVars, callVars, loopVars, endVars, concVars, enabled,
                   cond, condOut, notNotOut, predOut, counterpartOut>>

\* Condition.not(Condition.not(condition))(entity)
ApplyNotNot ==
    /\ algPc = "negated"
    /\ notNotOut' = Condition_not(Condition_not(condOut))
    /\ algPc' = "negatedTwice"
    /\ UNCHANGED <<waitVars, worldVars, callVars, loopVars, endVars, concVars, enabled,
                   cond, condOut, notOut, predOut, counterpartOut>>

\* Condition.asPredicate(condition)(entity)
ApplyAsPredicate ==
    /\ algPc = "negatedTwice"
    /\ predOut' = asPredicate(condOut)
    /\ algPc' = "predicate"
    /\ UNCHANGED <<waitVars, worldVars, callVars, loopVars, endVars, concVars, enabled,
                   cond, condOut, notOut, notNotOut, counterpartOut>>

\* the library's negative of a positive condition, on the same element
ApplyNegative ==
    /\ algPc = "predicate"
    /\ cond \in Positives
    /\ \E p \in ConditionOutcomes(Negative(cond), browserState, enabled) :
        counterpartOut' = p
    /\ algPc' = "paired"
    /\ UNCHANGED <<waitVars, worldVars, callVars, loopVars, endVars, concVars, enabled,
                   cond, condOut, notOut, notNotOut, predOut>>

\* the next condition is applied to the element
AlgReset ==
    /\ algPc \in {"predicate", "paired"}
    /\ algPc' = "start"
    /\ cond' = "none"
    /\ condOut' = Pending
    /\ notOut' = Pending
    /\ notNotOut' = Pending
    /\ predOut' = Pending
    /\ counterpartOut' = Pending
    /\ UNCHANGED <<waitVars, worldVars, callVars, loopVars, endVars, concVars, enabled>>

AlgNext ==
    \/ ApplyCondition
    \/ ApplyNot
    \/ ApplyNotNot
    \/ ApplyAsPredicate
    \/ ApplyNegative
    \/ AlgReset

AlgSpec == AlgInit /\ [][AlgNext]_vars

(* ------------- two Waits, their calls running interleaved -------------- *)

\* two Waits on two elements, sharing the clock only
ConcInit ==
    /\ WaitInit
    /\ browserState = "hidden"
    /\ timeout = 0
    /\ enabled = FALSE
    /\ AlgIdle
    /\ wEntity \in [WaitIds -> {"hidden", "visible"}]
    /\ ConcIdle

\* Wait w: query is called; finishTime is computed and fn is invoked
WCall(w) ==
    /\ wPc[w] = "idle"
    /\ clock <= MaxStart
    /\ \E f \in Fns, t \in DefaultTimeouts :
        /\ wFn' = [wFn EXCEPT ![w] = f]
        /\ wTimeout' = [wTimeout EXCEPT ![w] = t]
        /\ wFinish' = [wFinish EXCEPT ![w] = clock + t]
    /\ wPc' = [wPc EXCEPT ![w] = "invoked"]
    /\ wInFlight' = [wInFlight EXCEPT ![w] = @ + 1]
    /\ UNCHANGED <<waitVars, worldVars, callVars, loopVars, endVars, algVars,
                   wEntity, wRetried, wOutcome, wResult>>

\* Wait w: the promise of fn(this.entity) settles
WFnSettles(w) ==
    /\ wPc[w] = "invoked"
    /\ \E p \in FnOutcomes(wFn[w], wEntity[w]) : wOutcome' = [wOutcome EXCEPT ![w] = p]
    /\ wInFlight' = [wInFlight EXCEPT ![w] = @ - 1]
    /\ wPc' = [wPc EXCEPT ![w] = "evaluated"]
    /\ UNCHANGED <<waitVars, worldVars, callVars, loopVars, endVars, algVars,
                   wEntity, wFn, wTimeout, wFinish, wRetried, wResult>>

\* Wait w: return await fn(this.entity)
WAwaitReturns(w) ==
    /\ wPc[w] = "evaluated"
    /\ wOutcome[w].state = "resolved"
    /\ wResult' = [wResult EXCEPT ![w] = wOutcome[w]]
    /\ wPc' = [wPc EXCEPT ![w] = "done"]
    /\ UNCHANGED <<waitVars, worldVars, callVars, loopVars, endVars, algVars,
                   wEntity, wFn, wTimeout, wFinish, wRetried, wInFlight, wOutcome>>

\* mutant: the loop invokes fn again without awaiting the promise in flight
WCatchRetries_withoutAwait(w) ==
    /\ wPc[w] \in {"invoked", "evaluated"}
    /\ wInFlight[w] < 2
    /\ ~DeadlineExceeded(clock, wFinish[w])
    /\ wRetried' = [wRetried EXCEPT ![w] = TRUE]
    /\ wInFlight' = [wInFlight EXCEPT ![w] = @ + 1]
    /\ wPc' = [wPc EXCEPT ![w] = "invoked"]
    /\ UNCHANGED <<waitVars, worldVars, callVars, loopVars, endVars, algVars,
                   wEntity, wFn, wTimeout, wFinish, wOutcome, wResult>>

\* Wait w: catch (error), the deadline not exceeded: the loop invokes fn again
WCatchRetries(w) ==
    /\ wPc[w] = "evaluated"
    /\ wOutcome[w].state = "rejected"
    /\ ~DeadlineExceeded(clock, wFinish[w])
    /\ wRetried' = [wRetried EXCEPT ![w] = TRUE]
    /\ wInFlight' = [wInFlight EXCEPT ![w] = @ + 1]
    /\ wPc' = [wPc EXCEPT ![w] = "invoked"]
    /\ UNCHANGED <<waitVars, worldVars, callVars, loopVars, endVars, algVars,
                   wEntity, wFn, wTimeout, wFinish, wOutcome, wResult>>

\* Wait w: catch (error), the deadline exceeded: throw new TimeoutError(...)
WCatchThrows(w) ==
    /\ wPc[w] = "evaluated"
    /\ wOutcome[w].state = "rejected"
    /\ DeadlineExceeded(clock, wFinish[w])
    /\ wResult' = [wResult EXCEPT ![w] =
                      Rejected(TimeoutError(wTimeout[w], wOutcome[w].error))]
    /\ wPc' = [wPc EXCEPT ![w] = "done"]
    /\ UNCHANGED <<waitVars, worldVars, callVars, loopVars, endVars, algVars,
                   wEntity, wFn, wTimeout, wFinish, wRetried, wInFlight, wOutcome>>

ConcNext ==
    \/ \E w \in WaitIds : WCall(w)
    \/ \E w \in WaitIds : WFnSettles(w)
    \/ \E w \in WaitIds : WAwaitReturns(w)
    \/ \E w \in WaitIds : WCatchRetries(w)
    \/ \E w \in WaitIds : WCatchThrows(w)
    \/ Tick

ConcSpec == ConcInit /\ [][ConcNext]_vars

(* ------------------------------ claims -------------------------------- *)

Done == pc = "done"
QueryResolved == Done /\ queryResult.state = "resolved"
QueryRejected == Done /\ queryResult.state = "rejected"
Elapsed == endTime - startTime
\* from the last invocation of fn to the handling of its result
LastAttemptDuration == endTime - attemptStart
Max0(t) == IF t > 0 THEN t ELSE 0

\* C1: once an invocation of fn has succeeded, the next step of the call
\* settles it with that invocation's result, at the current clock, and fn is
\* not invoked again: the number of attempts stays what it was (one, when the
\* first attempt succeeds), whatever the deadline is.
C1_SuccessEndsCall ==
    [][ (pc = "evaluated" /\ outcome.state = "resolved") =>
            /\ attempts' = attempts
            /\ attemptStart' = attemptStart
            /\ pc' \in {"evaluated", "done"}
            /\ pc' = "done" =>
                /\ queryResult' = outcome
                /\ result'.state = "resolved"
                /\ endTime' = clock
      ]_vars

\* a first attempt that succeeded ended the call before the deadline
C1_Witness ==
    /\ QueryResolved
    /\ attempts = 1
    /\ queryResult.value = "r"
    /\ endTime < finishTime

\* C2: until never rejects; it resolves true exactly when the underlying
\* query resolves and false exactly when the underlying query rejects.
C2_UntilNeverRejects ==
    op = "until" =>
        /\ result.state # "rejected"
        /\ Done =>
            /\ result.state = "resolved"
            /\ result.value \in {"true", "false"}
            /\ result.value = "true" <=> queryResult.state = "resolved"
            /\ result.value = "false" <=> queryResult.state = "rejected"

\* until resolved false on a query that timed out
C2_Witness ==
    /\ Done
    /\ op = "until"
    /\ queryResult.state = "rejected"
    /\ queryResult.error.name = "TimeoutError"
    /\ result = Resolved("false")

\* C3: every rejection of query or command is a Timeout failure, whatever fn
\* rejects with, and command rejects exactly when its query rejects.
C3_OnlyTimeoutEscapes ==
    (Done /\ op \in {"query", "command"}) =>
        /\ result.state = "rejected" <=> queryResult.state = "rejected"
        /\ result.state = "rejected" => result.error.name = "TimeoutError"

\* C4: fn is invoked at least once in every call, for every timeout, before
\* the call can fail: a failed call has an invocation of fn that rejected.
C4_AtLeastOneAttempt ==
    /\ pc # "idle" => attempts >= 1 /\ attemptStart >= startTime
    /\ QueryRejected => outcome.state = "rejected" /\ settleTime >= startTime

\* a call with a negative timeout failed after its one attempt
C4_Witness ==
    /\ QueryRejected
    /\ callTimeout < 0
    /\ attempts = 1
    /\ outcome.state = "rejected"
    /\ queryResult.error.name = "TimeoutError"

\* C5: a failed attempt ends the call only when its deadline check reads a
\* clock strictly greater than (clock at call start) + timeout; a check that
\* reads a clock equal to or less than that always starts another attempt.
C5_StrictDeadline ==
    /\ [](QueryRejected => endTime > startTime + callTimeout)
    /\ [][ (pc = "evaluated" /\ outcome.state = "rejected" /\ pc' # "evaluated") =>
              IF clock > startTime + callTimeout
              THEN pc' = "done" /\ queryResult'.state = "rejected" /\ endTime' = clock
              ELSE pc' = "invoked" /\ queryResult' = Pending /\ attemptStart' = clock
         ]_vars

\* an attempt failed exactly at the deadline and another attempt was started
C5_Witness ==
    /\ pc = "invoked"
    /\ attempts >= 2
    /\ attemptStart = startTime + callTimeout
    /\ callTimeout > 0

\* the call's condition failed on every attempt: a call has ended with its
\* last attempt rejected (an earlier success would have ended it)
FailedEveryAttempt == Done /\ fn \in Conditions /\ outcome.state = "rejected"

FlippedBeforeDeadline ==
    /\ Done
    /\ fn = "isVisible"
    /\ flipTime # NoTime
    /\ startTime <= flipTime
    /\ flipTime < finishTime

\* C7 as stated: when the element starts to pass the condition at a time t
\* strictly before the deadline, the call succeeds (until resolves true),
\* before the deadline and not earlier than t, whatever the attempts last.
C7_ResolvesWhenFlipped ==
    FlippedBeforeDeadline =>
        /\ result.state = "resolved"
        /\ op = "until" => result.value = "true"
        /\ endTime < finishTime
        /\ endTime >= flipTime

\* C7 as amended: such a call succeeds, not earlier than t, by an attempt
\* that read the element at or after t; it fails only when its last attempt
\* read the element at or before t and was handled after the deadline.
C7_ResolvesUnlessAttemptOutlastsDeadline ==
    FlippedBeforeDeadline =>
        IF queryResult.state = "resolved"
        THEN /\ op = "until" => result = Resolved("true")
             /\ result.state = "resolved"
             /\ settleTime >= flipTime
             /\ endTime >= flipTime
        ELSE /\ op = "until" => result = Resolved("false")
             /\ settleTime <= flipTime
             /\ endTime > finishTime

\* until resolved true between the change of the element and the deadline,
\* after an attempt that had failed
C7_Witness ==
    /\ FlippedBeforeDeadline
    /\ op = "until"
    /\ result = Resolved("true")
    /\ attempts >= 2
    /\ startTime < flipTime
    /\ endTime < finishTime

\* C8: when query fails with Timeout, every hook given to the constructor has
\* been invoked, in the order given, before the failure reaches the caller.
C8_HooksInvokedOnTimeout ==
    QueryRejected => hooksInvoked = onFailureHooks

\* C9 as stated: until settles within the timeout of the call.
C9_UntilWithinTimeout ==
    (Done /\ op = "until") => Elapsed <= callTimeout

\* C9 as amended: until settles within the timeout (zero when it is negative)
\* plus the duration of its last attempt.
C9_UntilWithinTimeoutPlusAttempt ==
    (Done /\ op = "until") => Elapsed <= Max0(callTimeout) + LastAttemptDuration

\* until resolved false later than its timeout, after a retried attempt
C9_Witness ==
    /\ Done
    /\ op = "until"
    /\ result = Resolved("false")
    /\ callTimeout > 0
    /\ attempts >= 2
    /\ Elapsed > callTimeout
    /\ LastAttemptDuration > 0

\* C10 as stated: query and command settle within the timeout plus the
\* duration of the last attempt, for every timeout.
C10_WithinTimeoutPlusAttempt ==
    (Done /\ op \in {"query", "command"}) =>
        Elapsed <= callTimeout + LastAttemptDuration

\* C10 as amended: with a timeout of zero or more they settle within the
\* timeout plus the duration of the last attempt; with a negative timeout the
\* first attempt is the only one when it fails and the elapsed time is the
\* duration of the last attempt, started at the start of the call.
C10_WithinTimeoutPlusAttemptFromZero ==
    (Done /\ op \in {"query", "command"}) =>
        /\ callTimeout >= 0 => Elapsed <= callTimeout + LastAttemptDuration
        /\ callTimeout < 0 =>
            /\ Elapsed = LastAttemptDuration
            /\ queryResult.state = "rejected" => attempts = 1

\* command failed exactly one attempt's duration after its deadline, and a
\* query with a negative timeout took the duration of its one attempt
C10_Witness ==
    /\ Done
    /\ op = "command"
    /\ result.state = "rejected"
    /\ callTimeout > 0
    /\ attempts >= 2
    /\ LastAttemptDuration > 0
    /\ Elapsed = callTimeout + LastAttemptDuration

Negated == algPc \in {"negated", "negatedTwice", "predicate", "paired"}
NegatedTwice == algPc \in {"negatedTwice", "predicate", "paired"}
PredicateApplied == algPc \in {"predicate", "paired"}

\* C11: not(C) applied to an element succeeds exactly when C fails on it,
\* with any kind of failure, and fails, with ConditionNotMatched, exactly when
\* C succeeds on it.
C11_NotSucceedsWhenFails ==
    Negated =>
        /\ notOut.state = "resolved" <=> condOut.state = "rejected"
        /\ notOut = Rejected(ConditionNotMatchedError) <=> condOut.state = "resolved"
        /\ notOut.state \in {"resolved", "rejected"}

\* not(C) succeeded on a C that failed without a ConditionNotMatched failure
C11_Witness ==
    /\ Negated
    /\ cond = "custom"
    /\ condOut = Rejected(Undefined)
    /\ notOut = Resolved("undefined")

\* C12 as stated: not(not(C)) settles as C does on every element, the kind
\* of failure included.
C12_DoubleNegationSameOutcome ==
    NegatedTwice => notNotOut = condOut

\* C12 as amended: not(not(C)) succeeds exactly when C succeeds and fails
\* exactly when C fails, but always with ConditionNotMatched, whatever C
\* failed with.
C12_DoubleNegationSamePassFail ==
    NegatedTwice =>
        /\ notNotOut.state = condOut.state
        /\ condOut.state = "resolved" => notNotOut = condOut
        /\ condOut.state = "rejected" => notNotOut = Rejected(ConditionNotMatchedError)

\* isVisible failed on a missing element with the lookup's error and
\* not(not(isVisible)) failed with ConditionNotMatched
C12_Witness ==
    /\ NegatedTwice
    /\ cond = "isVisible"
    /\ browserState = "absent"
    /\ condOut = Rejected(WebDriverError)
    /\ notNotOut = Rejected(ConditionNotMatchedError)

C14_NegatedPairsComplement ==
    (algPc = "paired") =>
        /\ cond \in Positives
        /\ condOut.state \in {"resolved", "rejected"}
        /\ counterpartOut.state \in {"resolved", "rejected"}
        /\ counterpartOut.state = "resolved" <=> condOut.state = "rejected"

\* on a missing element isVisible failed with the lookup's error and isHidden passed
C14_Witness ==
    /\ algPc = "paired"
    /\ browserState = "absent"
    /\ cond = "isVisible"
    /\ condOut = Rejected(WebDriverError)
    /\ counterpartOut = Resolved("undefined")

\* C15: within a call at most one invocation of fn is in flight, and fn is
\* invoked again only after the invocation before it has rejected; this holds
\* for each of two Waits whose calls run interleaved, and a step of one call
\* changes nothing of the other call.
C15_AttemptsSequential ==
    /\ [](\A w \in WaitIds : wInFlight[w] \in {0, 1})
    /\ [][ \A w \in WaitIds :
             (wInFlight'[w] > wInFlight[w] /\ wPc[w] # "idle") =>
                 /\ wInFlight[w] = 0
                 /\ wPc[w] = "evaluated"
                 /\ wOutcome[w].state = "rejected"
                 /\ wRetried'[w]
         ]_vars
    /\ [][ \A w, v \in WaitIds :
             (w # v /\ wPc'[w] # wPc[w]) =>
                 /\ wPc'[v] = wPc[v]
                 /\ wInFlight'[v] = wInFlight[v]
                 /\ wOutcome'[v] = wOutcome[v]
                 /\ wFinish'[v] = wFinish[v]
                 /\ wResult'[v] = wResult[v]
         ]_vars

\* both Waits have an invocation in flight, each after a rejected one
C15_Witness ==
    \A w \in WaitIds :
        /\ wPc[w] = "invoked"
        /\ wInFlight[w] = 1
        /\ wRetried[w]
        /\ wOutcome[w].state = "rejected"

\* C16: the Wait's entity and default timeout stay what the constructor was
\* given through every call; a timeout argument sets the deadline of its call
\* only, a call without one takes the constructor's timeout, and every
\* invocation of fn is on the held entity.
C16_WaitImmutable ==
    /\ [][timeout' = timeout /\ entity' = entity]_vars
    /\ [](pc # "idle" =>
            /\ invokedOn = entity
            /\ finishTime = startTime + callTimeout
            /\ ~overridden => callTimeout = timeout)
    /\ [][ (pc = "done" /\ pc' = "invoked" /\ ~overridden') =>
              /\ callTimeout' = timeout
              /\ finishTime' = clock + timeout
              /\ invokedOn' = entity
         ]_vars

\* a call with its own timeout, different from the Wait's, has retried and
\* ended, and the Wait's timeout is the constructor's
C16_Witness ==
    /\ Done
    /\ overridden
    /\ callTimeout # timeout
    /\ timeout \in DefaultTimeouts
    /\ attempts >= 2
    /\ invokedOn = entity
    /\ startTime > 0

\* the states of a call's retry loop
Attempting == pc \in {"invoked", "evaluated"} /\ queryResult.state = "pending"
Succeeded == pc = "done" /\ queryResult.state = "resolved"
TimedOut ==
    /\ pc = "done"
    /\ queryResult.state = "rejected"
    /\ queryResult.error.name = "TimeoutError"
\* the caller starts the next call
NextCallStarts ==
    /\ pc' = "invoked"
    /\ queryResult' = Pending
    /\ attempts' = 1
    /\ startTime' = clock

\* C17: a call is in exactly one of Attempting, Succeeded, TimedOut; it goes
\* from Attempting to Succeeded on a successful invocation, stays Attempting
\* on a failure seen at or before the deadline, goes to TimedOut on a failure
\* seen after it, and makes no attempt from Succeeded or TimedOut.
C17_RetryStateMachine ==
    /\ [](pc # "idle" =>
            /\ Attempting \/ Succeeded \/ TimedOut
            /\ ~(Attempting /\ Succeeded)
            /\ ~(Attempting /\ TimedOut)
            /\ ~(Succeeded /\ TimedOut))
    /\ [][ Attempting =>
              /\ Attempting' \/ Succeeded' \/ TimedOut'
              /\ Succeeded' => pc = "evaluated" /\ outcome.state = "resolved"
              /\ TimedOut' =>
                    /\ pc = "evaluated"
                    /\ outcome.state = "rejected"
                    /\ clock > finishTime
              /\ (pc = "evaluated" /\ pc' = "invoked") =>
                    /\ outcome.state = "rejected"
                    /\ clock <= finishTime
                    /\ Attempting'
              /\ (pc = "evaluated" /\ outcome.state = "rejected" /\ pc' # pc) =>
                    IF clock <= finishTime THEN Attempting' ELSE TimedOut'
         ]_vars
    /\ [][ (Succeeded \/ TimedOut) =>
              \/ NextCallStarts
              \/ /\ pc' = "done"
                 /\ attempts' = attempts
                 /\ attemptStart' = attemptStart
                 /\ queryResult' = queryResult
         ]_vars

\* C18: the Timeout failure of query carries the message of the failure of
\* the last attempt, the one handled after the deadline, and the timeout of
\* the call: the argument when one was given, else the Wait's timeout.
C18_TimeoutCarriesLastError ==
    (TimedOut /\ queryResult.error.name = "TimeoutError") =>
        /\ outcome.state = "rejected"
        /\ queryResult.error.message = outcome.error.message
        /\ queryResult.error.timeout = callTimeout
        /\ ~overridden => queryResult.error.timeout = timeout
        /\ settleTime >= attemptStart
        /\ endTime > finishTime

\* a retried call with its own timeout failed with that timeout and the
\* message of the last attempt's failure
C18_Witness ==
    /\ TimedOut
    /\ fn = "custom"
    /\ overridden
    /\ callTimeout # timeout
    /\ attempts >= 2
    /\ queryResult.error =
          [name |-> "TimeoutError", message |-> CustomError.message, timeout |-> callTimeout]

\* C19: a ConditionNotMatched failure reaches no caller of until, command or
\* query: when the last attempt failed with it the caller gets a Timeout
\* carrying its message (or false from until), and when the condition inside
\* not fails with it, not succeeds.
C19_NotMatchedNeverEscapes ==
    /\ [](/\ result.error.name # ConditionNotMatchedError.name
          /\ queryResult.error.name # ConditionNotMatchedError.name)
    /\ []((Done /\ outcome = Rejected(ConditionNotMatchedError)) =>
            /\ queryResult.error.name = "TimeoutError"
            /\ queryResult.error.message = ConditionNotMatchedError.message
            /\ op = "until" => result = Resolved("false"))
    /\ [][ (pc = "invoked" /\ pc' = "evaluated" /\ fn = "isHidden"
            /\ isVisible(browserState) = Rejected(ConditionNotMatchedError)) =>
              outcome' = Resolved("undefined")
         ]_vars

\* command failed with a Timeout whose message is that of the
\* ConditionNotMatched failure of isHidden
C19_Witness ==
    /\ TimedOut
    /\ op = "command"
    /\ fn = "isHidden"
    /\ outcome = Rejected(ConditionNotMatchedError)
    /\ result.error.name = "TimeoutError"
    /\ result.error.message = ConditionNotMatchedError.message

\* C20: the deadline is read only after a failed attempt: an attempt that
\* succeeds makes the call succeed (until gives true) also when it is handled
\* after the deadline, and a call fails only when its last attempt failed.
C20_SuccessAfterDeadline ==
    /\ [](QueryRejected => outcome.state = "rejected")
    /\ []((Done /\ outcome.state = "resolved") =>
            /\ queryResult = outcome
            /\ result.state = "resolved"
            /\ op = "until" => result = Resolved("true"))
    /\ [][ (pc = "evaluated" /\ outcome.state = "resolved" /\ pc' # pc) =>
              /\ Succeeded'
              /\ result'.state = "resolved"
         ]_vars

\* until resolved true on an attempt that succeeded after the deadline
C20_Witness ==
    /\ Succeeded
    /\ op = "until"
    /\ result = Resolved("true")
    /\ settleTime > finishTime
    /\ endTime > finishTime
    /\ callTimeout >= 0

====
